---- MODULE Spec2Model ----
(***************************************************************************)
(* Model of src/entities/pricing-rule.ts: the PricingRule entity, its      *)
(* construction-time validation and its three pricing algorithms.          *)
(*                                                                         *)
(* A JavaScript value is a record [t, v]:                                  *)
(*   t = "undefined"  the field is absent                v = 0             *)
(*   t = "string"     the decimal text of the integer v                    *)
(*   t = "bigint"     the BigInt v                                         *)
(*   t = "int"        the Number v (an integer)                            *)
(*   t = "nan" | "inf" | "ninf"   the Numbers NaN, Infinity, -Infinity     *)
(*   t = "TypeError"  not a value: the evaluation threw                    *)
(***************************************************************************)
EXTENDS Integers, Sequences, FiniteSets

VARIABLES rules, log, last

vars == <<rules, log, last>>

\* ------------------------------------------------------------------ bounds
MaxNum == 3
MaxCount == 7
MaxPrice == 2
MaxRules == 2
MaxCalls == 2

\* ------------------------------------------------------- JavaScript values
Undefined == [t |-> "undefined", v |-> 0]
NaN == [t |-> "nan", v |-> 0]
Infinity == [t |-> "inf", v |-> 0]
NegInfinity == [t |-> "ninf", v |-> 0]
Thrown == [t |-> "TypeError", v |-> 0]

Num(n) == [t |-> "int", v |-> n]

Str(n) == [t |-> "string", v |-> n]

BigInt(n) == [t |-> "bigint", v |-> n]

NumberKinds == {"int", "nan", "inf", "ninf"}

\* typeof x
Typeof(x) ==
  IF x.t \in NumberKinds THEN "number" ELSE x.t

\* ToNumeric(x): what an arithmetic operator makes of its operand.
ToNumeric(x) ==
  CASE x.t = "undefined" -> NaN
    [] x.t = "string" -> Num(x.v)
    [] OTHER -> x

Abs(n) == IF n < 0 THEN -n ELSE n

Sign(x) ==
  CASE x.t = "inf" -> 1
    [] x.t = "ninf" -> -1
    [] x.t = "int" -> IF x.v > 0 THEN 1 ELSE IF x.v < 0 THEN -1 ELSE 0
    [] OTHER -> 0

SignedInfinity(s) == IF s > 0 THEN Infinity ELSE NegInfinity

\* An arithmetic operator throws a TypeError when it mixes a BigInt with a
\* Number (count and price are Numbers, so a BigInt operand is always mixed),
\* and an operand whose evaluation threw never returns.
Throws(a, b) ==
  \/ a.t = "TypeError" \/ b.t = "TypeError"
  \/ a.t = "bigint" \/ b.t = "bigint"

\* floor of the real quotient of two integers, d # 0
FloorQuot(n, d) ==
  IF d > 0 THEN n \div d ELSE (-n) \div (-d)

CeilQuot(n, d) == -FloorQuot(-n, d)

\* Math.floor(a / b), with ceil in place of floor
CeilDiv(a, b) ==
  IF Throws(a, b) THEN Thrown
  ELSE LET x == ToNumeric(a)
           y == ToNumeric(b)
       IN  CASE x.t = "nan" \/ y.t = "nan" -> NaN
             [] x.t = "int" /\ y.t = "int" /\ y.v # 0 -> Num(CeilQuot(x.v, y.v))
             [] x.t = "int" /\ y.t = "int" /\ y.v = 0 ->
                  IF x.v = 0 THEN NaN ELSE SignedInfinity(x.v)
             [] x.t = "int" -> Num(0)
             [] y.t = "int" ->
                  SignedInfinity(Sign(x) * (IF y.v < 0 THEN -1 ELSE 1))
             [] OTHER -> NaN

\* Math.floor(a / b)
FloorDiv(a, b) ==
  IF Throws(a, b) THEN Thrown
  ELSE LET x == ToNumeric(a)
           y == ToNumeric(b)
       IN  CASE x.t = "nan" \/ y.t = "nan" -> NaN
             \* finite / finite, divisor non-zero
             [] x.t = "int" /\ y.t = "int" /\ y.v # 0 -> Num(FloorQuot(x.v, y.v))
             \* finite / 0: 0/0 is NaN, otherwise an infinity of the dividend's sign
             [] x.t = "int" /\ y.t = "int" /\ y.v = 0 ->
                  IF x.v = 0 THEN NaN ELSE SignedInfinity(x.v)
             \* finite / infinity is (+ or -) 0
             [] x.t = "int" -> Num(0)
             \* infinity / finite (a divisor 0 is +0)
             [] y.t = "int" ->
                  SignedInfinity(Sign(x) * (IF y.v < 0 THEN -1 ELSE 1))
             \* infinity / infinity
             [] OTHER -> NaN

\* a % b: the remainder has the sign of the dividend
JsMod(a, b) ==
  IF Throws(a, b) THEN Thrown
  ELSE LET x == ToNumeric(a)
           y == ToNumeric(b)
       IN  CASE x.t = "nan" \/ y.t = "nan" -> NaN
             [] x.t \in {"inf", "ninf"} -> NaN
             [] y.t \in {"inf", "ninf"} -> x
             [] y.v = 0 -> NaN
             [] OTHER -> Num(Sign(x) * (Abs(x.v) % Abs(y.v)))

\* a * b
JsMul(a, b) ==
  IF Throws(a, b) THEN Thrown
  ELSE LET x == ToNumeric(a)
           y == ToNumeric(b)
       IN  CASE x.t = "nan" \/ y.t = "nan" -> NaN
             [] x.t = "int" /\ y.t = "int" -> Num(x.v * y.v)
             [] Sign(x) = 0 \/ Sign(y) = 0 -> NaN
             [] OTHER -> SignedInfinity(Sign(x) * Sign(y))

\* a + b, both operands Numbers (the results of * and of %)
JsAdd(a, b) ==
  IF Throws(a, b) THEN Thrown
  ELSE LET x == ToNumeric(a)
           y == ToNumeric(b)
       IN  CASE x.t = "nan" \/ y.t = "nan" -> NaN
             [] x.t = "int" /\ y.t = "int" -> Num(x.v + y.v)
             [] x.t = "int" -> y
             [] y.t = "int" -> x
             [] x.t = y.t -> x
             [] OTHER -> NaN

\* a > b: never throws; a BigInt compares by its mathematical value
JsGt(a, b) ==
  LET x == IF a.t = "bigint" THEN Num(a.v) ELSE ToNumeric(a)
      y == IF b.t = "bigint" THEN Num(b.v) ELSE ToNumeric(b)
  IN  CASE x.t = "nan" \/ y.t = "nan" -> FALSE
        [] x.t = "int" /\ y.t = "int" -> x.v > y.v
        [] x.t = "inf" -> y.t # "inf"
        [] x.t = "ninf" -> FALSE
        [] OTHER -> y.t = "ninf"

JsGe(a, b) == JsGt(a, b) \/ (a.t = "int" /\ b.t = "int" /\ a.v = b.v)

\* ------------------------------------------------------------ the entity
\* type RuleType
RuleType == {"discount", "reducedPrice", "both"}

\* interface RuleDefinition: each field optional
FieldNames == {"quantity", "discountedQuantity", "bulkPrice"}

\* A thrown Error is its message: the pieces of the template literal in
\* order, each interpolated value and each quoted field name a piece of its own.
Ok == [thrown |-> FALSE, message |-> <<>>]

Error(message) == [thrown |-> TRUE, message |-> message]

\* validateDefinition with the bulkPrice test of the "both" case left out
validateDefinitionNoBulk(self) ==
  CASE self.type = "discount" ->
         IF \/ Typeof(self.definition.quantity) # "number"
            \/ Typeof(self.definition.discountedQuantity) # "number"
         THEN Error(<<"Invalid definition for ", "discount rule", " on SKU ",
                      self.skuId, ". Expected ", "quantity", " and ",
                      "discountedQuantity", " to be numbers.">>)
         ELSE Ok
    [] self.type = "reducedPrice" ->
         IF \/ Typeof(self.definition.quantity) # "number"
            \/ Typeof(self.definition.bulkPrice) # "number"
         THEN Error(<<"Invalid definition for ", "reduced price rule", " on SKU ",
                      self.skuId, ". Expected ", "quantity", " and ",
                      "bulkPrice", " to be numbers.">>)
         ELSE Ok
    [] self.type = "both" ->
         IF \/ Typeof(self.definition.quantity) # "number"
            \/ Typeof(self.definition.discountedQuantity) # "number"
         THEN Error(<<"Invalid definition for ", "combined rule", " on SKU ",
                      self.skuId, ". Expected ", "quantity", ", ",
                      "discountedQuantity", ", and ", "bulkPrice",
                      " to be numbers.">>)
         ELSE Ok
    [] OTHER -> Error(<<"Unknown rule type: ", self.type>>)

\* validateDefinition testing a field for presence instead of for its type
validateDefinitionPresence(self) ==
  CASE self.type = "discount" ->
         IF \/ Typeof(self.definition.quantity) = "undefined"
            \/ Typeof(self.definition.discountedQuantity) = "undefined"
         THEN Error(<<"Invalid definition for ", "discount rule", " on SKU ",
                      self.skuId, ". Expected ", "quantity", " and ",
                      "discountedQuantity", " to be numbers.">>)
         ELSE Ok
    [] self.type = "reducedPrice" ->
         IF \/ Typeof(self.definition.quantity) = "undefined"
            \/ Typeof(self.definition.bulkPrice) = "undefined"
         THEN Error(<<"Invalid definition for ", "reduced price rule", " on SKU ",
                      self.skuId, ". Expected ", "quantity", " and ",
                      "bulkPrice", " to be numbers.">>)
         ELSE Ok
    [] self.type = "both" ->
         IF \/ Typeof(self.definition.quantity) = "undefined"
            \/ Typeof(self.definition.discountedQuantity) = "undefined"
            \/ Typeof(self.definition.bulkPrice) = "undefined"
         THEN Error(<<"Invalid definition for ", "combined rule", " on SKU ",
                      self.skuId, ". Expected ", "quantity", ", ",
                      "discountedQuantity", ", and ", "bulkPrice",
                      " to be numbers.">>)
         ELSE Ok
    [] OTHER -> Error(<<"Unknown rule type: ", self.type>>)

\* validateDefinition whose default case breaks instead of throwing
validateDefinitionLenient(self) ==
  CASE self.type = "discount" ->
         IF \/ Typeof(self.definition.quantity) # "number"
            \/ Typeof(self.definition.discountedQuantity) # "number"
         THEN Error(<<"Invalid definition for ", "discount rule", " on SKU ",
                      self.skuId, ". Expected ", "quantity", " and ",
                      "discountedQuantity", " to be numbers.">>)
         ELSE Ok
    [] self.type = "reducedPrice" ->
         IF \/ Typeof(self.definition.quantity) # "number"
            \/ Typeof(self.definition.bulkPrice) # "number"
         THEN Error(<<"Invalid definition for ", "reduced price rule", " on SKU ",
                      self.skuId, ". Expected ", "quantity", " and ",
                      "bulkPrice", " to be numbers.">>)
         ELSE Ok
    [] self.type = "both" ->
         IF \/ Typeof(self.definition.quantity) # "number"
            \/ Typeof(self.definition.discountedQuantity) # "number"
            \/ Typeof(self.definition.bulkPrice) # "number"
         THEN Error(<<"Invalid definition for ", "combined rule", " on SKU ",
                      self.skuId, ". Expected ", "quantity", ", ",
                      "discountedQuantity", ", and ", "bulkPrice",
                      " to be numbers.">>)
         ELSE Ok
    [] OTHER -> Ok

\* private validateDefinition(): void
validateDefinition(self) ==
  CASE self.type = "discount" ->
         IF \/ Typeof(self.definition.quantity) # "number"
            \/ Typeof(self.definition.discountedQuantity) # "number"
         THEN Error(<<"Invalid definition for ", "discount rule", " on SKU ",
                      self.skuId, ". Expected ", "quantity", " and ",
                      "discountedQuantity", " to be numbers.">>)
         ELSE Ok
    [] self.type = "reducedPrice" ->
         IF \/ Typeof(self.definition.quantity) # "number"
            \/ Typeof(self.definition.bulkPrice) # "number"
         THEN Error(<<"Invalid definition for ", "reduced price rule", " on SKU ",
                      self.skuId, ". Expected ", "quantity", " and ",
                      "bulkPrice", " to be numbers.">>)
         ELSE Ok
    [] self.type = "both" ->
         IF \/ Typeof(self.definition.quantity) # "number"
            \/ Typeof(self.definition.discountedQuantity) # "number"
            \/ Typeof(self.definition.bulkPrice) # "number"
         THEN Error(<<"Invalid definition for ", "combined rule", " on SKU ",
                      self.skuId, ". Expected ", "quantity", ", ",
                      "discountedQuantity", ", and ", "bulkPrice",
                      " to be numbers.">>)
         ELSE Ok
    [] OTHER -> Error(<<"Unknown rule type: ", self.type>>)

\* applyDiscount dropping the leftover units
applyDiscountNoRemainder(self, count, price) ==
  LET discountSets == FloorDiv(count, self.definition.quantity)
  IN  JsMul(JsMul(discountSets, self.definition.discountedQuantity), price)

\* private applyDiscount(count, price)
applyDiscount(self, count, price) ==
  LET discountSets == FloorDiv(count, self.definition.quantity)
      remainingItems == JsMod(count, self.definition.quantity)
  IN  JsMul(JsAdd(JsMul(discountSets, self.definition.discountedQuantity),
                  remainingItems),
            price)

\* applyReducedPrice with the threshold test >= instead of >
applyReducedPriceInclusive(self, count, price) ==
  IF JsGe(count, self.definition.quantity)
  THEN JsMul(count, self.definition.bulkPrice)
  ELSE JsMul(count, price)

\* private applyReducedPrice(count, price)
applyReducedPrice(self, count, price) ==
  IF JsGt(count, self.definition.quantity)
  THEN JsMul(count, self.definition.bulkPrice)
  ELSE JsMul(count, price)

\* applyBoth testing the raw count against the threshold
applyBothRawCount(self, count, price) ==
  LET discountSets == FloorDiv(count, self.definition.quantity)
      discountedItemsCount == JsMul(discountSets, self.definition.discountedQuantity)
      remainingItems == JsMod(count, self.definition.quantity)
      totalDiscountedCount == JsAdd(discountedItemsCount, remainingItems)
  IN  IF totalDiscountedCount.t = "TypeError" THEN Thrown
      ELSE IF JsGt(count, self.definition.quantity)
      THEN JsMul(totalDiscountedCount, self.definition.bulkPrice)
      ELSE JsMul(JsAdd(discountedItemsCount, remainingItems), price)

\* private applyBoth(count, price)
applyBoth(self, count, price) ==
  LET discountSets == FloorDiv(count, self.definition.quantity)
      discountedItemsCount == JsMul(discountSets, self.definition.discountedQuantity)
      remainingItems == JsMod(count, self.definition.quantity)
      totalDiscountedCount == JsAdd(discountedItemsCount, remainingItems)
  IN  IF totalDiscountedCount.t = "TypeError" THEN Thrown
      ELSE IF JsGt(totalDiscountedCount, self.definition.quantity)
      THEN JsMul(totalDiscountedCount, self.definition.bulkPrice)
      ELSE JsMul(JsAdd(discountedItemsCount, remainingItems), price)

\* apply(count, price) on the instance rules[i]
apply(i, count, price) ==
  LET self == rules[i]
  IN  CASE self.type = "discount" -> applyDiscount(self, count, price)
        [] self.type = "reducedPrice" -> applyReducedPrice(self, count, price)
        [] self.type = "both" -> applyBoth(self, count, price)
        [] OTHER -> JsMul(count, price)

\* ------------------------------------------------------------ the inputs
SkuIds == {"sku-1", "sku-2"}

\* the type argument at run time: the three variants and a string that is none
TypeArgs == RuleType \cup {"bogus"}

\* the values a field of the definition argument may hold
Numbers == {Num(n) : n \in -1..MaxNum} \cup {NaN, Infinity}

NonNumbers == {Undefined, Str(2), BigInt(2)}

Definitions == [FieldNames -> Numbers \cup NonNumbers]

Counts == 0..MaxCount

Prices == 0..MaxPrice

\* the smaller inputs of the sessions that hold several instances
SessionSkuIds == {"sku-1"}

SessionDefinitions ==
  { [quantity |-> Num(2), discountedQuantity |-> Num(1), bulkPrice |-> Num(4)],
    [quantity |-> Num(2), discountedQuantity |-> Num(1), bulkPrice |-> Undefined],
    [quantity |-> Str(2), discountedQuantity |-> Undefined, bulkPrice |-> Num(4)] }

SessionCounts == {0, 3}

SessionPrices == {5}

\* ------------------------------------------------------------- the state
\* rules: the instances that exist, in order of construction
\* log:   the apply calls made so far, each with its result
\* last:  the last operation, its arguments and its outcome
NoDefinition == [f \in FieldNames |-> Undefined]

NoOp ==
  [op |-> "none", skuId |-> "", type |-> "", definition |-> NoDefinition,
   rule |-> 0, count |-> 0, price |-> 0,
   outcome |-> "none", message |-> <<>>, result |-> Undefined]

Init ==
  /\ rules = <<>>
  /\ log = <<>>
  /\ last = NoOp

\* new PricingRule(skuId, type, definition)
Construct(skuId, type, definition) ==
  LET self == [skuId |-> skuId, type |-> type, definition |-> definition]
      v == validateDefinition(self)
  IN  /\ rules' = IF v.thrown THEN rules ELSE Append(rules, self)
      /\ last' = [NoOp EXCEPT !.op = "construct", !.skuId = skuId, !.type = type,
                              !.definition = definition,
                              !.rule = IF v.thrown THEN 0 ELSE Len(rules) + 1,
                              !.outcome = IF v.thrown THEN "throw" ELSE "return",
                              !.message = v.message]
      /\ UNCHANGED log

\* rules[i].apply(count, price)
Apply(i, count, price) ==
  LET r == apply(i, Num(count), Num(price))
      call == [rule |-> i, count |-> count, price |-> price,
               outcome |-> IF r.t = "TypeError" THEN "throw" ELSE "return",
               result |-> r]
  IN  /\ log' = Append(log, call)
      /\ last' = [NoOp EXCEPT !.op = "apply", !.rule = i, !.count = count,
                              !.price = price, !.outcome = call.outcome,
                              !.result = r]
      /\ UNCHANGED rules

\* A session: up to MaxRules instances, up to MaxCalls calls, in any order.
Next ==
  \/ /\ Len(rules) < MaxRules
     /\ \E skuId \in SessionSkuIds, type \in TypeArgs, definition \in SessionDefinitions :
          Construct(skuId, type, definition)
  \/ /\ Len(log) < MaxCalls
     /\ \E i \in DOMAIN rules, count \in SessionCounts, price \in SessionPrices :
          Apply(i, count, price)

Spec == Init /\ [][Next]_vars

\* One construction and one call on its instance, over all the inputs.
NextCalc ==
  \/ /\ last.op = "none"
     /\ \E skuId \in SkuIds, type \in TypeArgs, definition \in Definitions :
          Construct(skuId, type, definition)
  \/ /\ log = <<>>
     /\ \E i \in DOMAIN rules, count \in Counts, price \in Prices :
          Apply(i, count, price)

SpecCalc == Init /\ [][NextCalc]_vars

\* ------------------------------------------------------------ the claims
Applied == last.op = "apply"

Constructed == last.op = "construct"

\* the instance, and the fields, of the last apply call
Self == rules[last.rule]

Quantity == Self.definition.quantity

DiscountedQuantity == Self.definition.discountedQuantity

BulkPrice == Self.definition.bulkPrice

\* floor(count / q) * d + count mod q, over the integers, q >= 1
BilledUnits(count, q, d) == (count \div q) * d + (count % q)

\* the fields the spec requires of each variant
Required(type) ==
  CASE type = "discount" -> {"quantity", "discountedQuantity"}
    [] type = "reducedPrice" -> {"quantity", "bulkPrice"}
    [] type = "both" -> {"quantity", "discountedQuantity", "bulkPrice"}
    [] OTHER -> {}

\* the words by which a message names the kind of a rule
KindWords(type) ==
  CASE type = "discount" -> "discount rule"
    [] type = "reducedPrice" -> "reduced price rule"
    [] type = "both" -> "combined rule"
    [] OTHER -> type

Mentions(message, piece) == \E k \in DOMAIN message : message[k] = piece

Valid(rule) ==
  /\ rule.type \in RuleType
  /\ \A f \in Required(rule.type) : rule.definition[f].t \in NumberKinds

\* C1: on a rule of type both, with quantity an integer >= 1 and integer
\* discountedQuantity and bulkPrice, apply(count, price) is
\* billedUnits * bulkPrice when billedUnits > quantity and billedUnits * price
\* otherwise, where billedUnits = floor(count / quantity) * discountedQuantity
\* + count mod quantity: the billed units, not the raw count, are compared.
C1_BothComparesBilledUnits ==
  ( /\ Applied
    /\ Self.type = "both"
    /\ Quantity.t = "int" /\ Quantity.v >= 1
    /\ DiscountedQuantity.t = "int" /\ BulkPrice.t = "int" )
  => LET billed == BilledUnits(last.count, Quantity.v, DiscountedQuantity.v)
     IN  /\ last.outcome = "return"
         /\ last.result = IF billed > Quantity.v
                          THEN Num(billed * BulkPrice.v)
                          ELSE Num(billed * last.price)

\* a call whose raw count exceeds the threshold while its billed units do not
C1_Witness ==
  /\ Applied
  /\ Self.type = "both"
  /\ Quantity.t = "int" /\ Quantity.v >= 1
  /\ DiscountedQuantity.t = "int" /\ BulkPrice.t = "int"
  /\ last.count > Quantity.v
  /\ BilledUnits(last.count, Quantity.v, DiscountedQuantity.v) = Quantity.v
  /\ last.price > 0
  /\ BulkPrice.v # last.price
  /\ last.result = Num(Quantity.v * last.price)

\* C2: on a rule of type discount, with quantity an integer >= 1 and an
\* integer discountedQuantity, apply(count, price) is
\* (floor(count / quantity) * discountedQuantity + count mod quantity) * price.
C2_DiscountFormula ==
  ( /\ Applied
    /\ Self.type = "discount"
    /\ Quantity.t = "int" /\ Quantity.v >= 1
    /\ DiscountedQuantity.t = "int" )
  => /\ last.outcome = "return"
     /\ last.result =
          Num(BilledUnits(last.count, Quantity.v, DiscountedQuantity.v) * last.price)

\* 3-for-2, 7 units at price 2: two groups and one leftover, 5 billed units
C2_Witness ==
  /\ Applied
  /\ Self.type = "discount"
  /\ Quantity = Num(3) /\ DiscountedQuantity = Num(2)
  /\ last.count = 7 /\ last.price = 2
  /\ last.result = Num(10)

\* C3: on a rule of type reducedPrice, with integer quantity and bulkPrice,
\* apply(count, price) is count * bulkPrice when count > quantity and
\* count * price when count <= quantity.
C3_ReducedPriceStrictThreshold ==
  ( /\ Applied
    /\ Self.type = "reducedPrice"
    /\ Quantity.t = "int" /\ BulkPrice.t = "int" )
  => /\ last.outcome = "return"
     /\ last.count > Quantity.v => last.result = Num(last.count * BulkPrice.v)
     /\ last.count <= Quantity.v => last.result = Num(last.count * last.price)

\* count = quantity is charged the regular price
C3_Witness ==
  /\ Applied
  /\ Self.type = "reducedPrice"
  /\ Quantity.t = "int" /\ BulkPrice.t = "int"
  /\ last.count = Quantity.v /\ last.count > 0
  /\ BulkPrice.v < last.price
  /\ last.result = Num(last.count * last.price)

\* C4: a construction succeeds, and adds its instance, exactly when the type
\* is one of the three variants and every field that variant requires is of
\* type number; the fields it does not require play no part.
C4_ConstructionIffRequiredNumeric ==
  Constructed =>
    /\ last.outcome = "return" <=>
         /\ last.type \in RuleType
         /\ \A f \in Required(last.type) : last.definition[f].t \in NumberKinds
    /\ last.outcome = "return" =>
         rules = <<[skuId |-> last.skuId, type |-> last.type,
                    definition |-> last.definition]>>
    /\ last.outcome # "return" => last.outcome = "throw" /\ rules = <<>>

\* a discount rule is constructed although its bulkPrice is not a number
C4_Witness ==
  /\ Constructed
  /\ last.type = "discount"
  /\ last.definition.bulkPrice.t \in {"string", "bigint"}
  /\ last.outcome = "return"
  /\ Len(rules) = 1

\* C5: the error of every failed construction names the skuId, the kind of
\* rule and each field that was expected.
C5_ErrorNamesSkuKindFields ==
  (Constructed /\ last.outcome = "throw") =>
    /\ Mentions(last.message, last.skuId)
    /\ Mentions(last.message, KindWords(last.type))
    /\ \A f \in Required(last.type) : Mentions(last.message, f)

\* C6: apply on a constructed rule never throws and returns a value of type
\* number, whatever numbers the rule's fields hold.
C6_ApplyNeverThrows ==
  Applied => last.outcome = "return" /\ Typeof(last.result) = "number"

\* a call on a rule whose quantity is 0 returns (NaN)
C6_Witness ==
  /\ Applied
  /\ Self.type \in {"discount", "both"}
  /\ Quantity = Num(0)
  /\ last.outcome = "return"
  /\ last.result = NaN

\* C7: apply(0, price) returns 0 on every constructed rule.
C7_ZeroCountIsZero ==
  (Applied /\ last.count = 0) => last.result = Num(0)

\* C8: every instance that exists is valid; a failed construction adds no
\* instance; no operation changes an instance that exists.
C8_InstancesValidAndImmutable ==
  /\ [](\A i \in DOMAIN rules : Valid(rules[i]))
  /\ [][ /\ Len(rules') >= Len(rules)
         /\ \A i \in DOMAIN rules : rules'[i] = rules[i]
         /\ last'.op = "apply" => rules' = rules
         /\ last'.outcome = "throw" => rules' = rules ]_vars

\* a construction has failed after an instance was built and applied
C8_Witness ==
  /\ Len(rules) >= 1
  /\ Len(log) >= 1
  /\ Constructed /\ last.outcome = "throw"

\* the parameters under which a rule is a discount: quantity >= 1,
\* 0 <= discountedQuantity <= quantity, 0 <= bulkPrice <= price, each on the
\* fields the type requires
Sensible(rule, price) ==
  /\ rule.definition.quantity.t = "int" /\ rule.definition.quantity.v >= 1
  /\ "discountedQuantity" \in Required(rule.type) =>
       /\ rule.definition.discountedQuantity.t = "int"
       /\ rule.definition.discountedQuantity.v >= 0
       /\ rule.definition.discountedQuantity.v <= rule.definition.quantity.v
  /\ "bulkPrice" \in Required(rule.type) =>
       /\ rule.definition.bulkPrice.t = "int"
       /\ rule.definition.bulkPrice.v >= 0
       /\ rule.definition.bulkPrice.v <= price

\* C10: a rule with sensible parameters never charges more than the regular
\* price: apply(count, price) <= count * price.
C10_NeverAboveRegularPrice ==
  (Applied /\ Sensible(Self, last.price)) =>
    /\ last.result.t = "int"
    /\ last.result.v <= last.count * last.price

\* a combined rule with sensible parameters charges less than the regular price
C10_Witness ==
  /\ Applied
  /\ Self.type = "both"
  /\ Sensible(Self, last.price)
  /\ last.result.t = "int"
  /\ last.result.v > 0
  /\ last.result.v < last.count * last.price
====
